---- MODULE Spec2Model ----
(***************************************************************************)
(* Model of agent-api/app.py: the rejection classifier, the response       *)
(* composer and the Prometheus instrumentation of the /ask, /healthz and   *)
(* /metrics handlers.                                                      *)
(*                                                                         *)
(* Text is modelled as a sequence of atoms.  An atom is an indivisible     *)
(* run of characters: a word, or one separator character.  Every literal   *)
(* of the pattern registry is an atom, so a regular expression of the      *)
(* registry is a sequence of elements over atoms.                          *)
(***************************************************************************)
EXTENDS Integers, Sequences, FiniteSets, TLC

VARIABLES
    clsMsg,                   \* classify_rejection: the argument `message`
    clsResult,                \* classify_rejection: the returned tuple
    clsDone,                  \* classify_rejection has returned for clsMsg
    registry,                 \* the default CollectorRegistry: the eight metrics of lines 24-81
    workers,                  \* the request each handler thread is processing, and where it is
    hashmemo,                 \* hash() of the strings this process has hashed so far
    sent,                     \* history: responses that left the server, by route, status and kind
    started,                  \* history: requests received so far
    overlap,                  \* history: two /ask requests were in flight together
    answers                   \* history: the answers generate_response gave, by message

clsVars == <<clsMsg, clsResult, clsDone>>

(***************************************************************************)
(* Bounds                                                                  *)
(***************************************************************************)
MaxLen == 4          \* longest message, in atoms, given to the classifier

(***************************************************************************)
(* Text                                                                    *)
(***************************************************************************)
\* atoms that \s matches
Whitespace == {" "}

\* atoms that [\s_-] matches
Separators == Whitespace \cup {"_", "-"}

\* the atoms messages are built from
Alphabet ==
    {"sudo", " ", "jailbreak", "Jailbreak", "api", "key", "-", "hello",
     "ignore", "all", "instructions"}

\* str.lower() of one atom
LowerAtom(a) ==
    CASE a = "Jailbreak" -> "jailbreak"
      [] a = "JAILBREAK" -> "jailbreak"
      [] a = "Password"  -> "password"
      [] OTHER           -> a

\* message.lower()
str_lower(message) == [i \in 1..Len(message) |-> LowerAtom(message[i])]

(***************************************************************************)
(* Regular expressions of the registry                                     *)
(***************************************************************************)
Lit(w)   == [t |-> "lit", w |-> w]          \* a literal word
WS       == [t |-> "ws"]                    \* \s+
SEP      == [t |-> "sep"]                   \* [\s_-]?
Opt(p)   == [t |-> "opt", p |-> p]          \* ( ... )?
Alt(ws)  == [t |-> "alt", ws |-> ws]        \* (a|b|c)

\* The positions just after a match of the pattern `pat` that starts at
\* position i of s.
RECURSIVE EndsOf(_, _, _)
EndsOf(pat, s, i) ==
    IF pat = <<>> THEN {i}
    ELSE LET e == Head(pat)
             after ==
                 CASE e.t = "lit" -> IF i <= Len(s) /\ s[i] = e.w THEN {i + 1} ELSE {}
                   [] e.t = "alt" -> IF i <= Len(s) /\ s[i] \in e.ws THEN {i + 1} ELSE {}
                   [] e.t = "ws"  -> {j \in (i + 1)..(Len(s) + 1) :
                                         \A k \in i..(j - 1) : s[k] \in Whitespace}
                   [] e.t = "sep" -> {i} \cup
                                     (IF i <= Len(s) /\ s[i] \in Separators
                                      THEN {i + 1} ELSE {})
                   [] e.t = "opt" -> {i} \cup EndsOf(e.p, s, i)
         IN UNION {EndsOf(Tail(pat), s, j) : j \in after}

\* re.search(pattern, s): the pattern occurs somewhere in s
re_search(pat, s) == \E i \in 1..(Len(s) + 1) : EndsOf(pat, s, i) # {}

P(pat, id) == [pattern |-> pat, pattern_id |-> id]

AllPrev == <<Opt(<<Lit("all"), WS>>), Opt(<<Lit("previous"), WS>>)>>

REJECTION_PATTERNS ==
    [prompt_injection |-> <<
        P(<<Lit("ignore"), WS>> \o AllPrev \o <<Lit("instructions")>>, "pi_1"),
        P(<<Lit("system"), WS, Lit("prompt")>>, "pi_2"),
        P(<<Lit("disregard"), WS>> \o AllPrev, "pi_3"),
        P(<<Lit("forget"), WS>> \o AllPrev \o <<Lit("instructions")>>, "pi_4"),
        P(<<Lit("new"), WS, Lit("instructions")>>, "pi_5"),
        P(<<Lit("override"), WS, Opt(<<Lit("all"), WS>>), Lit("rules")>>, "pi_6"),
        P(<<Lit("jailbreak")>>, "pi_7"),
        P(<<Lit("bypass"), WS, Alt({"safety", "filter", "restriction"})>>, "pi_8") >>,
     secrets_request |-> <<
        P(<<Lit("password")>>, "sr_1"),
        P(<<Lit("api"), SEP, Lit("key")>>, "sr_2"),
        P(<<Lit("secret"), SEP, Lit("key")>>, "sr_3"),
        P(<<Lit("access"), SEP, Lit("token")>>, "sr_4"),
        P(<<Lit("private"), SEP, Lit("key")>>, "sr_5"),
        P(<<Lit("credentials")>>, "sr_6"),
        P(<<Lit("auth"), SEP, Lit("token")>>, "sr_7"),
        P(<<Lit("bearer"), SEP, Lit("token")>>, "sr_8") >>,
     dangerous_action |-> <<
        P(<<Lit("restart"), WS, Lit("prod")>>, "da_1"),
        P(<<Lit("delete"), WS, Opt(<<Lit("the"), WS>>), Lit("database")>>, "da_2"),
        P(<<Lit("drop"), WS, Lit("table")>>, "da_3"),
        P(<<Lit("rm"), WS, Lit("-"), Lit("rf")>>, "da_4"),
        P(<<Lit("shutdown"), WS, Lit("server")>>, "da_5"),
        P(<<Lit("execute"), WS, Lit("command")>>, "da_6"),
        P(<<Lit("run"), WS, Lit("as"), WS, Lit("root")>>, "da_7"),
        P(<<Lit("sudo"), WS>>, "da_8"),
        P(<<Lit("format"), WS, Opt(<<Lit("hard"), WS>>), Lit("drive")>>, "da_9"),
        P(<<Lit("wipe"), WS, Opt(<<Lit("all"), WS>>), Lit("data")>>, "da_10") >> ]

\* REJECTION_PATTERNS.items(): a dict iterates in insertion order
CategoryOrder == <<"prompt_injection", "secrets_request", "dangerous_action">>

None == "None"

NotRejected == [rejected |-> FALSE, reason |-> None, pattern_id |-> None]

\* the inner loop: the patterns of one category, from index k on
RECURSIVE ScanPatterns(_, _, _, _)
ScanPatterns(reason, patterns, k, message_lower) ==
    IF k > Len(patterns) THEN NotRejected
    ELSE IF re_search(patterns[k].pattern, message_lower)
         THEN [rejected |-> TRUE, reason |-> reason,
               pattern_id |-> patterns[k].pattern_id]
         ELSE ScanPatterns(reason, patterns, k + 1, message_lower)

\* the outer loop: the categories `order`, from index c on
RECURSIVE ScanCategories(_, _, _)
ScanCategories(order, c, message_lower) ==
    IF c > Len(order) THEN NotRejected
    ELSE LET hit == ScanPatterns(order[c], REJECTION_PATTERNS[order[c]], 1,
                                 message_lower)
         IN IF hit.rejected THEN hit
            ELSE ScanCategories(order, c + 1, message_lower)

\* a classifier that scans the categories last to first
classify_rejection_reversed(message) ==
    ScanCategories(<<"dangerous_action", "secrets_request", "prompt_injection">>,
                   1, str_lower(message))

classify_rejection(message) ==
    ScanCategories(CategoryOrder, 1, str_lower(message))

RECURSIVE SeqsUpTo(_, _)
SeqsUpTo(S, n) ==
    IF n = 0 THEN {<<>>}
    ELSE LET shorter == SeqsUpTo(S, n - 1)
         IN shorter \cup {Append(s, a) : s \in shorter, a \in S}

Messages == SeqsUpTo(Alphabet, MaxLen)

InitClassifier ==
    /\ clsMsg = <<>>
    /\ clsResult = NotRejected
    /\ clsDone = FALSE

Classify ==
    /\ ~clsDone
    /\ clsResult' = classify_rejection(clsMsg)
    /\ clsDone' = TRUE
    /\ UNCHANGED <<clsMsg, registry, workers, hashmemo, sent, started, overlap, answers>>

(***************************************************************************)
(* Metrics                                                                 *)
(***************************************************************************)
NumWorkers == 2      \* handler threads that serve /ask concurrently
MaxRequests == 2     \* requests received in one run
HashBits == 2        \* width of the modelled hash() value

PROMPT_VERSION == "v1.0.0"

\* a labelled metric with no series yet
NoSeries == [l \in {} |-> 0]

\* the value of the series `labels` of counter c
Value(c, labels) == IF labels \in DOMAIN c THEN c[labels] ELSE 0

\* an increment that overwrites the series instead of adding to it
IncLost(c, labels) ==
    [l \in DOMAIN c \cup {labels} |-> IF l = labels THEN 1 ELSE c[l]]

\* COUNTER.labels(...).inc(): creates the series on first use; the client
\* library takes the series' lock around the addition
Inc(c, labels) ==
    [l \in DOMAIN c \cup {labels} |-> IF l = labels THEN Value(c, l) + 1 ELSE c[l]]

\* HISTOGRAM.labels(...).observe(amount): count and sum of the series
Observe(h, labels, amount) ==
    [l \in DOMAIN h \cup {labels} |->
        IF l = labels
        THEN IF l \in DOMAIN h
             THEN [count |-> h[l].count + 1, sum |-> h[l].sum + amount]
             ELSE [count |-> 1, sum |-> amount]
        ELSE h[l]]

\* the sum of counter c over all its series
RECURSIVE Total(_)
Total(c) ==
    IF DOMAIN c = {} THEN 0
    ELSE LET l == CHOOSE x \in DOMAIN c : TRUE
         IN c[l] + Total([x \in DOMAIN c \ {l} |-> c[x]])

(***************************************************************************)
(* Request bodies and request.get_json()                                   *)
(***************************************************************************)
\* the messages sent to /ask
SampleMessages ==
    { <<"hello">>, <<"sudo", " ", "Jailbreak">>, <<"api", "-", "key">> }

\* kind            body                          request.get_json()
\* empty           zero bytes, as JSON           raises BadRequest
\* null            null                          None
\* empty_object    {}                            {}
\* no_message      {"text": "hi"}                {"text": "hi"}
\* number          5                             5
\* nonstring       {"message": 7}                {"message": 7}
\* message         {"message": "<message>"}      {"message": "<message>"}
Bodies ==
    {[kind |-> k, message |-> <<>>] :
        k \in {"empty", "null", "empty_object", "no_message", "number", "nonstring"}}
    \cup {[kind |-> "message", message |-> m] : m \in SampleMessages}

\* request.get_json() raises
GetJsonRaises(body) == body.kind = "empty"

\* `not data`
DataFalsy(body) == body.kind \in {"null", "empty_object"}

\* `"message" not in data` raises TypeError: data is not a container
ContainsRaises(body) == body.kind = "number"

\* `"message" not in data`
MessageMissing(body) == body.kind = "no_message"

\* message.encode("utf-8") raises AttributeError: message is not a str
EncodeRaises(body) == body.kind = "nonstring"

\* len(a) of one atom, in characters; the atoms are ASCII, so also in bytes
AtomLen(a) ==
    CASE a \in {" ", "-", "_"} -> 1
      [] a \in {"api", "key", "all"} -> 3
      [] a = "sudo" -> 4
      [] a = "hello" -> 5
      [] a = "ignore" -> 6
      [] a \in {"password", "Password"} -> 8
      [] a \in {"jailbreak", "Jailbreak", "JAILBREAK"} -> 9
      [] a = "instructions" -> 12

\* len(message.encode("utf-8"))
RECURSIVE ByteLen(_)
ByteLen(message) ==
    IF message = <<>> THEN 0 ELSE AtomLen(Head(message)) + ByteLen(Tail(message))

\* message[:n], cut at the last atom that ends within n characters
RECURSIVE Prefix(_, _)
Prefix(message, n) ==
    IF message = <<>> \/ AtomLen(Head(message)) > n THEN <<>>
    ELSE <<Head(message)>> \o Prefix(Tail(message), n - AtomLen(Head(message)))

(***************************************************************************)
(* Response composer                                                       *)
(***************************************************************************)
responses(message) ==
    << <<"I understand you're asking about: ">> \o Prefix(message, 50) \o <<"...">>,
       <<"That's an interesting question. Let me help you with that.">>,
       <<"I'd be happy to assist with your request.">>,
       <<"Thank you for your question. Here's what I can tell you.">> >>

\* the values hash(message) can take in this process: str hashes are salted
\* with a key drawn at interpreter start, the same string hashes to the same
\* value for the life of the process, and hash("") is 0 under every key
HashChoices(message) ==
    IF message \in DOMAIN hashmemo THEN {hashmemo[message]}
    ELSE IF message = <<>> THEN {0}
    ELSE 0..(2^HashBits - 1)

Remember(message, h) ==
    [m \in DOMAIN hashmemo \cup {message} |-> IF m = message THEN h ELSE hashmemo[m]]

\* generate_response(message), h being hash(message)
generate_response(message, h) ==
    responses(message)[(h % Len(responses(message))) + 1]

JsonNull == [null |-> TRUE, text |-> <<>>]
JsonStr(text) == [null |-> FALSE, text |-> text]
Absent == "absent"

\* the payload of lines 171-178
InvalidPayload ==
    [error |-> "Missing required field: message", rejected |-> TRUE,
     reason |-> "invalid_request", prompt_version |-> PROMPT_VERSION,
     answer |-> JsonNull]

\* the payload of lines 202-207
RejectedPayload(reason) ==
    [error |-> Absent, rejected |-> TRUE, reason |-> reason,
     prompt_version |-> PROMPT_VERSION,
     answer |-> JsonStr(<<"I cannot process this request due to: ", reason>>)]

\* the payload of lines 215-220
AcceptedPayload(answer) ==
    [error |-> Absent, rejected |-> FALSE, reason |-> None,
     prompt_version |-> PROMPT_VERSION, answer |-> JsonStr(answer)]

NoPayload ==
    [error |-> Absent, rejected |-> FALSE, reason |-> None,
     prompt_version |-> None, answer |-> JsonNull]

\* how a handler ends: it returns (payload, status) or lets an exception out
Returns(status, payload) ==
    [how |-> "return", status |-> status, payload |-> payload, exc |-> None]
Raises(exc) ==
    [how |-> "raise", status |-> None, payload |-> NoPayload, exc |-> exc]
Running == [how |-> "running", status |-> None, payload |-> NoPayload, exc |-> None]

\* the status the framework sends for an exception that leaves the view:
\* an HTTPException carries its own status, anything else is a 500
StatusOfException(exc) == IF exc = "BadRequest" THEN "400" ELSE "500"

FinalStatus(result) ==
    IF result.how = "return" THEN result.status ELSE StatusOfException(result.exc)

\* what a response that was sent was: accepted, rejected, invalid or fault
KindOf(result) ==
    IF result.how = "raise" THEN "fault"
    ELSE IF result.status = "400" THEN "invalid"
    ELSE IF result.payload.rejected THEN "rejected"
    ELSE "accepted"

(***************************************************************************)
(* The metrics of lines 24-81                                              *)
(***************************************************************************)
REQUEST_COUNT == registry.REQUEST_COUNT                     \* {prompt_version, route}
ACCEPTED_COUNT == registry.ACCEPTED_COUNT                   \* {prompt_version, route}
REJECTION_COUNT == registry.REJECTION_COUNT                 \* {prompt_version, reason, pattern_id}
REJECTION_PATTERN_COUNT == registry.REJECTION_PATTERN_COUNT \* {prompt_version, reason, pattern_id}
HTTP_STATUS_COUNT == registry.HTTP_STATUS_COUNT             \* {route, status_code}
EXCEPTION_COUNT == registry.EXCEPTION_COUNT                 \* {route}
REQUEST_LATENCY == registry.REQUEST_LATENCY                 \* {prompt_version, route, outcome}
MESSAGE_LENGTH == registry.MESSAGE_LENGTH                   \* {prompt_version}

InitRegistry ==
    registry = [REQUEST_COUNT |-> NoSeries, ACCEPTED_COUNT |-> NoSeries,
                REJECTION_COUNT |-> NoSeries, REJECTION_PATTERN_COUNT |-> NoSeries,
                HTTP_STATUS_COUNT |-> NoSeries, EXCEPTION_COUNT |-> NoSeries,
                REQUEST_LATENCY |-> NoSeries, MESSAGE_LENGTH |-> NoSeries]

(***************************************************************************)
(* POST /ask, one step per statement that touches shared state             *)
(***************************************************************************)
Workers == 1..NumWorkers

NoBody == [kind |-> "none", message |-> <<>>]

IdleWorker ==
    [pc |-> "idle", body |-> NoBody, outcome |-> "error", cls |-> NotRejected,
     response |-> NoPayload, exc |-> None, result |-> Running,
     nExc |-> 0, statusIncs |-> <<>>, latencies |-> <<>>, injected |-> "none"]

Free(t) == workers[t].pc \in {"idle", "done"}
InFlight(t) == ~Free(t)

histVars == <<sent, started, overlap>>
otherVars == <<clsMsg, clsResult, clsDone, answers>>

\* the labels of the rejection series of a classified request
RejectionLabelsFromText(w) == <<PROMPT_VERSION, w.cls.reason, w.body.message[1]>>

RejectionLabels(w) == <<PROMPT_VERSION, w.cls.reason, w.cls.pattern_id>>

\* lines 153-156: a request arrives and the free thread of lowest number takes it
Receive(t, body) ==
    /\ started < MaxRequests
    /\ Free(t)
    /\ \A u \in 1..(t - 1) : InFlight(u)
    /\ workers' = [workers EXCEPT ![t] =
                      [IdleWorker EXCEPT !.pc = "count_request", !.body = body]]
    /\ started' = started + 1
    /\ overlap' = (overlap \/ \E u \in Workers \ {t} : InFlight(u))
    /\ UNCHANGED <<registry, hashmemo, sent, otherVars>>

\* line 157
CountRequest(t) ==
    /\ workers[t].pc = "count_request"
    /\ registry' = [registry EXCEPT
                      !.REQUEST_COUNT = Inc(@, <<PROMPT_VERSION, "/ask">>)]
    /\ workers' = [workers EXCEPT ![t].pc = "get_json"]
    /\ UNCHANGED <<hashmemo, histVars, otherVars>>

\* lines 160-161
GetJson(t) ==
    LET body == workers[t].body IN
    /\ workers[t].pc = "get_json"
    /\ workers' = [workers EXCEPT ![t] =
          IF GetJsonRaises(body)
          THEN [@ EXCEPT !.pc = "count_exception", !.exc = "BadRequest"]
          ELSE IF DataFalsy(body)
          THEN [@ EXCEPT !.pc = "reject_invalid"]
          ELSE IF ContainsRaises(body)
          THEN [@ EXCEPT !.pc = "count_exception", !.exc = "TypeError"]
          ELSE IF MessageMissing(body)
          THEN [@ EXCEPT !.pc = "reject_invalid"]
          ELSE [@ EXCEPT !.pc = "observe_length"]]
    /\ UNCHANGED <<registry, hashmemo, histVars, otherVars>>

\* lines 162-166
RejectInvalid(t) ==
    /\ workers[t].pc = "reject_invalid"
    /\ registry' = [registry EXCEPT
          !.REJECTION_COUNT = Inc(@, <<PROMPT_VERSION, "invalid_request", "none">>)]
    /\ workers' = [workers EXCEPT ![t].pc = "status_400"]
    /\ UNCHANGED <<hashmemo, histVars, otherVars>>

\* lines 168-179
Status400(t) ==
    /\ workers[t].pc = "status_400"
    /\ registry' = [registry EXCEPT !.HTTP_STATUS_COUNT = Inc(@, <<"/ask", "400">>)]
    /\ workers' = [workers EXCEPT ![t] =
          [@ EXCEPT !.pc = "finally", !.outcome = "rejected",
                    !.statusIncs = Append(@, "400"),
                    !.result = Returns("400", InvalidPayload)]]
    /\ UNCHANGED <<hashmemo, histVars, otherVars>>

\* lines 181-185
ObserveLength(t) ==
    LET body == workers[t].body IN
    /\ workers[t].pc = "observe_length"
    /\ IF EncodeRaises(body)
       THEN /\ workers' = [workers EXCEPT ![t] =
                  [@ EXCEPT !.pc = "count_exception", !.exc = "AttributeError"]]
            /\ UNCHANGED registry
       ELSE LET cls == classify_rejection(body.message) IN
            /\ registry' = [registry EXCEPT !.MESSAGE_LENGTH =
                  Observe(@, <<PROMPT_VERSION>>, ByteLen(body.message))]
            /\ workers' = [workers EXCEPT ![t] =
                  [@ EXCEPT !.cls = cls,
                            !.pc = IF cls.rejected THEN "count_rejection"
                                   ELSE "count_accepted"]]
    /\ UNCHANGED <<hashmemo, histVars, otherVars>>

\* lines 189-193
CountRejection(t) ==
    /\ workers[t].pc = "count_rejection"
    /\ registry' = [registry EXCEPT
          !.REJECTION_COUNT = Inc(@, RejectionLabels(workers[t]))]
    /\ workers' = [workers EXCEPT ![t].pc = "count_pattern"]
    /\ UNCHANGED <<hashmemo, histVars, otherVars>>

\* a handler that leaves the pattern series alone
CountPatternSkipped(t) ==
    /\ workers[t].pc = "count_pattern"
    /\ workers' = [workers EXCEPT ![t] =
          [@ EXCEPT !.pc = "status_200", !.outcome = "rejected",
                    !.response = RejectedPayload(workers[t].cls.reason)]]
    /\ UNCHANGED <<registry, hashmemo, histVars, otherVars>>

\* lines 195-207
CountPattern(t) ==
    /\ workers[t].pc = "count_pattern"
    /\ registry' = [registry EXCEPT
          !.REJECTION_PATTERN_COUNT = Inc(@, RejectionLabels(workers[t]))]
    /\ workers' = [workers EXCEPT ![t] =
          [@ EXCEPT !.pc = "status_200", !.outcome = "rejected",
                    !.response = RejectedPayload(workers[t].cls.reason)]]
    /\ UNCHANGED <<hashmemo, histVars, otherVars>>

\* lines 209-220
CountAccepted(t) ==
    LET message == workers[t].body.message IN
    /\ workers[t].pc = "count_accepted"
    /\ registry' = [registry EXCEPT
          !.ACCEPTED_COUNT = Inc(@, <<PROMPT_VERSION, "/ask">>)]
    /\ \E h \in HashChoices(message) :
          /\ hashmemo' = Remember(message, h)
          /\ workers' = [workers EXCEPT ![t] =
                [@ EXCEPT !.pc = "status_200", !.outcome = "accepted",
                          !.response = AcceptedPayload(generate_response(message, h))]]
    /\ UNCHANGED <<histVars, otherVars>>

\* lines 222-223
Status200(t) ==
    /\ workers[t].pc = "status_200"
    /\ registry' = [registry EXCEPT !.HTTP_STATUS_COUNT = Inc(@, <<"/ask", "200">>)]
    /\ workers' = [workers EXCEPT ![t] =
          [@ EXCEPT !.pc = "finally", !.statusIncs = Append(@, "200"),
                    !.result = Returns("200", workers[t].response)]]
    /\ UNCHANGED <<hashmemo, histVars, otherVars>>

\* an except clause that counts nothing
CountExceptionSkipped(t) ==
    /\ workers[t].pc = "count_exception"
    /\ workers' = [workers EXCEPT ![t].pc = "status_500"]
    /\ UNCHANGED <<registry, hashmemo, histVars, otherVars>>

\* lines 225-226
CountException(t) ==
    /\ workers[t].pc = "count_exception"
    /\ registry' = [registry EXCEPT !.EXCEPTION_COUNT = Inc(@, <<"/ask">>)]
    /\ workers' = [workers EXCEPT ![t] =
          [@ EXCEPT !.pc = "status_500", !.nExc = @ + 1]]
    /\ UNCHANGED <<hashmemo, histVars, otherVars>>

\* lines 227-228
Status500(t) ==
    /\ workers[t].pc = "status_500"
    /\ registry' = [registry EXCEPT !.HTTP_STATUS_COUNT = Inc(@, <<"/ask", "500">>)]
    /\ workers' = [workers EXCEPT ![t] =
          [@ EXCEPT !.pc = "finally", !.statusIncs = Append(@, "500"),
                    !.result = Raises(workers[t].exc)]]
    /\ UNCHANGED <<hashmemo, histVars, otherVars>>

\* history: one more response of this route, status and kind has left the server
Tally(h, key) ==
    [k \in DOMAIN h \cup {key} |-> IF k = key THEN Value(h, k) + 1 ELSE h[k]]

\* the response leaves the server
Send(route, result) ==
    sent' = Tally(sent, <<route, FinalStatus(result), KindOf(result)>>)

\* lines 230-236, and the return or raise the try statement was about to do
Finally(t) ==
    /\ workers[t].pc = "finally"
    /\ registry' = [registry EXCEPT !.REQUEST_LATENCY =
          Inc(@, <<PROMPT_VERSION, "/ask", workers[t].outcome>>)]
    /\ workers' = [workers EXCEPT ![t] =
          [@ EXCEPT !.pc = "done", !.latencies = Append(@, workers[t].outcome)]]
    /\ Send("/ask", workers[t].result)
    /\ UNCHANGED <<hashmemo, started, overlap, otherVars>>

\* lines 239-247
Healthz ==
    /\ started < MaxRequests
    /\ started' = started + 1
    /\ registry' = [registry EXCEPT
          !.REQUEST_COUNT = Inc(@, <<PROMPT_VERSION, "/healthz">>),
          !.HTTP_STATUS_COUNT = Inc(@, <<"/healthz", "200">>)]
    /\ sent' = Tally(sent, <<"/healthz", "200", "healthz">>)
    /\ UNCHANGED <<workers, hashmemo, overlap, otherVars>>

\* lines 250-253: generate_latest() reads the registry
Metrics ==
    /\ started < MaxRequests
    /\ started' = started + 1
    /\ sent' = Tally(sent, <<"/metrics", "200", "metrics">>)
    /\ UNCHANGED <<registry, workers, hashmemo, overlap, otherVars>>

vars == <<clsMsg, clsResult, clsDone, registry, workers, hashmemo,
          sent, started, overlap, answers>>

\* the messages generate_response is called with across restarts
AnswerMessages == { <<>>, <<"hello">>, <<"hello", " ", "hello">> }

NoAnswers == [m \in AnswerMessages |-> {}]

NoHashes == [m \in {} |-> 0]

Init ==
    /\ InitClassifier
    /\ InitRegistry
    /\ workers = [t \in Workers |-> IdleWorker]
    /\ hashmemo = NoHashes
    /\ sent = NoSeries
    /\ started = 0
    /\ overlap = FALSE
    /\ answers = NoAnswers

Next ==
    \/ \E t \in Workers, body \in Bodies : Receive(t, body)
    \/ \E t \in Workers : CountRequest(t)
    \/ \E t \in Workers : GetJson(t)
    \/ \E t \in Workers : RejectInvalid(t)
    \/ \E t \in Workers : Status400(t)
    \/ \E t \in Workers : ObserveLength(t)
    \/ \E t \in Workers : CountRejection(t)
    \/ \E t \in Workers : CountPattern(t)
    \/ \E t \in Workers : CountAccepted(t)
    \/ \E t \in Workers : Status200(t)
    \/ \E t \in Workers : CountException(t)
    \/ \E t \in Workers : Status500(t)
    \/ \E t \in Workers : Finally(t)
    \/ Healthz
    \/ Metrics

Spec == Init /\ [][Next]_vars

(***************************************************************************)
(* The same handlers when a recording step or jsonify raises               *)
(***************************************************************************)
\* line 157 raises: the statement is outside the try, nothing catches it
RequestCounterFails(t) ==
    /\ workers[t].pc = "count_request"
    /\ workers[t].injected = "none"
    /\ workers' = [workers EXCEPT ![t] =
          [@ EXCEPT !.pc = "done", !.injected = "metric",
                    !.result = Raises("MetricError")]]
    /\ Send("/ask", Raises("MetricError"))
    /\ UNCHANGED <<registry, hashmemo, started, overlap, otherVars>>

\* a recording step of the try body raises (lines 162, 168, 182, 189, 195,
\* 209, 222): the except clause takes over
RecordingFailsInTry(t) ==
    /\ workers[t].pc \in {"reject_invalid", "status_400", "observe_length",
                          "count_rejection", "count_pattern", "count_accepted",
                          "status_200"}
    /\ workers[t].pc = "observe_length" => ~EncodeRaises(workers[t].body)
    /\ workers[t].injected = "none"
    /\ workers' = [workers EXCEPT ![t] =
          [@ EXCEPT !.pc = "count_exception", !.injected = "metric",
                    !.exc = "MetricError"]]
    /\ UNCHANGED <<registry, hashmemo, histVars, otherVars>>

\* a recording step of the except clause raises (lines 226, 227): the new
\* exception leaves through the finally clause
RecordingFailsInExcept(t) ==
    /\ workers[t].pc \in {"count_exception", "status_500"}
    /\ workers[t].injected = "none"
    /\ workers' = [workers EXCEPT ![t] =
          [@ EXCEPT !.pc = "finally", !.injected = "metric",
                    !.result = Raises("MetricError")]]
    /\ UNCHANGED <<registry, hashmemo, histVars, otherVars>>

\* lines 232-236 raise: the exception replaces the pending return or raise
LatencyFails(t) ==
    /\ workers[t].pc = "finally"
    /\ workers[t].injected = "none"
    /\ workers' = [workers EXCEPT ![t] =
          [@ EXCEPT !.pc = "done", !.injected = "metric",
                    !.result = Raises("MetricError")]]
    /\ Send("/ask", Raises("MetricError"))
    /\ UNCHANGED <<registry, hashmemo, started, overlap, otherVars>>

\* jsonify raises at line 171 or 223, after the status was counted
JsonifyFails(t) ==
    LET pc == workers[t].pc
        status == IF pc = "status_400" THEN "400" ELSE "200" IN
    /\ pc \in {"status_400", "status_200"}
    /\ workers[t].injected = "none"
    /\ registry' = [registry EXCEPT !.HTTP_STATUS_COUNT = Inc(@, <<"/ask", status>>)]
    /\ workers' = [workers EXCEPT ![t] =
          [@ EXCEPT !.pc = "count_exception", !.injected = "jsonify",
                    !.exc = "JsonifyError",
                    !.outcome = IF pc = "status_400" THEN "rejected" ELSE @,
                    !.statusIncs = Append(@, status)]]
    /\ UNCHANGED <<hashmemo, histVars, otherVars>>

\* the handlers when one recording step of a request may raise
NextFault ==
    \/ Next
    \/ \E t \in Workers : RequestCounterFails(t)
    \/ \E t \in Workers : RecordingFailsInTry(t)
    \/ \E t \in Workers : RecordingFailsInExcept(t)
    \/ \E t \in Workers : LatencyFails(t)

SpecFault == Init /\ [][NextFault]_vars

\* the handlers when jsonify may raise
NextLate ==
    \/ Next
    \/ \E t \in Workers : JsonifyFails(t)

SpecLate == Init /\ [][NextLate]_vars

(***************************************************************************)
(* generate_response across interpreter restarts                           *)
(***************************************************************************)
GenerateResponse(message) ==
    /\ \E h \in HashChoices(message) :
          /\ hashmemo' = Remember(message, h)
          /\ answers' = [answers EXCEPT ![message] =
                            @ \cup {generate_response(message, h)}]
    /\ UNCHANGED <<registry, workers, histVars, clsVars>>

\* the process is started again: a new hash key is drawn
Restart ==
    /\ hashmemo # NoHashes
    /\ hashmemo' = NoHashes
    /\ UNCHANGED <<registry, workers, histVars, clsVars, answers>>

NextAnswer ==
    \/ \E message \in AnswerMessages : GenerateResponse(message)
    \/ Restart

SpecAnswer == Init /\ [][NextAnswer]_vars

(***************************************************************************)
(* The classifier on every message of at most MaxLen atoms                 *)
(***************************************************************************)
InitClassify ==
    /\ clsMsg \in Messages
    /\ clsResult = NotRejected
    /\ clsDone = FALSE
    /\ InitRegistry
    /\ workers = [t \in Workers |-> IdleWorker]
    /\ hashmemo = NoHashes
    /\ sent = NoSeries
    /\ started = 0
    /\ overlap = FALSE
    /\ answers = NoAnswers

NextClassify == Classify

SpecClassify == InitClassify /\ [][NextClassify]_vars

(***************************************************************************)
(* Properties                                                              *)
(***************************************************************************)
NoneInFlight == \A t \in Workers : Free(t)

\* the responses sent for `route` whose kind is in `kinds`
SentKinds(route, kinds) ==
    Total([l \in {x \in DOMAIN sent : x[1] = route /\ x[3] \in kinds} |-> sent[l]])

\* the responses sent for `route` with final status `status`
SentStatus(route, status) ==
    Total([l \in {x \in DOMAIN sent : x[1] = route /\ x[2] = status} |-> sent[l]])

Categories == {"prompt_injection", "secrets_request", "dangerous_action"}

PatternIds ==
    UNION {{REJECTION_PATTERNS[c][k].pattern_id : k \in 1..Len(REJECTION_PATTERNS[c])} :
              c \in Categories}

\* ---- C1 ----------------------------------------------------------------
ClaimedOrder == <<"prompt_injection", "secrets_request", "dangerous_action">>

\* the (category index, pattern index) pairs whose pattern occurs in the
\* lower-cased message
Occurrences(message) ==
    UNION {{<<c, k>> : k \in {j \in 1..Len(REJECTION_PATTERNS[ClaimedOrder[c]]) :
                re_search(REJECTION_PATTERNS[ClaimedOrder[c]][j].pattern,
                          str_lower(message))}} :
              c \in 1..Len(ClaimedOrder)}

Before(a, b) == a[1] < b[1] \/ (a[1] = b[1] /\ a[2] < b[2])

\* C1: classify_rejection returns (True, c, id) for the first pattern, in
\* category order prompt_injection, secrets_request, dangerous_action and in
\* list order inside a category, that occurs anywhere in the lower-cased
\* message, wherever the matches lie; it returns (False, None, None) exactly
\* when no pattern occurs, in particular for the empty message.
C1_FirstPatternWins ==
    clsDone =>
        LET occ == Occurrences(clsMsg) IN
        /\ clsResult.rejected <=> occ # {}
        /\ occ = {} => clsResult = NotRejected
        /\ occ # {} =>
              \E a \in occ :
                 /\ \A b \in occ \ {a} : Before(a, b)
                 /\ clsResult =
                       [rejected |-> TRUE, reason |-> ClaimedOrder[a[1]],
                        pattern_id |->
                           REJECTION_PATTERNS[ClaimedOrder[a[1]]][a[2]].pattern_id]
        /\ clsMsg = <<>> => clsResult = NotRejected

\* a dangerous_action phrase first, a prompt_injection phrase later, in mixed
\* case: classified prompt_injection
C1_Witness ==
    /\ clsDone
    /\ clsMsg = <<"sudo", " ", "Jailbreak">>
    /\ clsResult = [rejected |-> TRUE, reason |-> "prompt_injection",
                    pattern_id |-> "pi_7"]

\* ---- C2 ----------------------------------------------------------------
\* C2: once N concurrent POST /ask requests that each carry a message have
\* all completed without a fault, accepted_total{/ask} plus the sum of
\* rejections_total over all labels is N, and requests_total{/ask} is N.
C2_CountersAccountForAll ==
    (NoneInFlight /\ SentKinds("/ask", {"invalid", "fault"}) = 0) =>
        LET N == SentKinds("/ask", {"accepted", "rejected"}) IN
        /\ Value(ACCEPTED_COUNT, <<PROMPT_VERSION, "/ask">>)
              + Total(REJECTION_COUNT) = N
        /\ Value(REQUEST_COUNT, <<PROMPT_VERSION, "/ask">>) = N

\* two requests that were in flight together, one accepted and one rejected
C2_Witness ==
    /\ NoneInFlight
    /\ overlap
    /\ SentKinds("/ask", {"invalid", "fault"}) = 0
    /\ SentKinds("/ask", {"accepted"}) >= 1
    /\ SentKinds("/ask", {"rejected"}) >= 1
    /\ Value(REQUEST_COUNT, <<PROMPT_VERSION, "/ask">>) >= 2

\* ---- C3 ----------------------------------------------------------------
\* bodies that are empty or carry no 'message' field
BodiesWithoutMessage == {"empty", "null", "empty_object", "no_message", "number"}

\* C3: a POST /ask whose body is empty or has no 'message' field ends with
\* HTTP 400 and the payload rejected=true, reason="invalid_request",
\* answer=null, and does not increment exceptions_total.
C3_MissingMessageHandledLocally ==
    \A t \in Workers :
        (workers[t].pc = "done" /\ workers[t].body.kind \in BodiesWithoutMessage) =>
            /\ workers[t].result = Returns("400", InvalidPayload)
            /\ workers[t].nExc = 0

\* ---- C4 ----------------------------------------------------------------
\* C4: when a failure other than a missing message field occurs while
\* POST /ask is processed, exceptions_total{/ask} is incremented exactly
\* once, the response is recorded as status 500 in http_responses_total and
\* the fault is re-raised to the caller.
C4_FaultCountedAndReraised ==
    /\ \A t \in Workers :
          (workers[t].pc = "done" /\
             (workers[t].exc # None \/
              workers[t].body.kind \in {"empty", "number", "nonstring"})) =>
                /\ workers[t].exc # None
                /\ workers[t].nExc = 1
                /\ workers[t].statusIncs = <<"500">>
                /\ workers[t].result = Raises(workers[t].exc)
    /\ NoneInFlight =>
          /\ Value(EXCEPTION_COUNT, <<"/ask">>) = SentKinds("/ask", {"fault"})
          /\ Value(HTTP_STATUS_COUNT, <<"/ask", "500">>) = SentKinds("/ask", {"fault"})

\* a message that is not a string: counted, recorded as 500, re-raised
C4_Witness ==
    \E t \in Workers :
        /\ workers[t].pc = "done"
        /\ workers[t].body.kind = "nonstring"
        /\ workers[t].result = Raises("AttributeError")
        /\ Value(EXCEPTION_COUNT, <<"/ask">>) = 1
        /\ Value(HTTP_STATUS_COUNT, <<"/ask", "500">>) = 1

\* ---- C5 ----------------------------------------------------------------
\* how a result ends, leaving the answer text aside
Flow(r) == <<r.how, r.status, r.exc, r.payload.rejected, r.payload.reason>>

\* the result of POST /ask with this body when every recording step succeeds
PrimaryFlow(body) ==
    IF GetJsonRaises(body) THEN Flow(Raises("BadRequest"))
    ELSE IF DataFalsy(body) THEN Flow(Returns("400", InvalidPayload))
    ELSE IF ContainsRaises(body) THEN Flow(Raises("TypeError"))
    ELSE IF MessageMissing(body) THEN Flow(Returns("400", InvalidPayload))
    ELSE IF EncodeRaises(body) THEN Flow(Raises("AttributeError"))
    ELSE LET cls == classify_rejection(body.message) IN
         IF cls.rejected THEN Flow(Returns("200", RejectedPayload(cls.reason)))
         ELSE Flow(Returns("200", AcceptedPayload(<<>>)))

\* C5: a failure of one metric-recording step never aborts or changes the
\* primary flow: the request ends with the status code and payload it would
\* have had if the step had succeeded.
C5_RecordingFailureHarmless ==
    \A t \in Workers :
        (workers[t].pc = "done" /\ workers[t].injected = "metric") =>
            Flow(workers[t].result) = PrimaryFlow(workers[t].body)

\* without a failing recording step a request ends as PrimaryFlow says
PrimaryFlowIsTheFlow ==
    \A t \in Workers :
        (workers[t].pc = "done" /\ workers[t].injected = "none") =>
            Flow(workers[t].result) = PrimaryFlow(workers[t].body)

\* ---- C6 ----------------------------------------------------------------
\* C6: every response sent increments http_responses_total exactly once,
\* under the final status code of that response: no request increments the
\* series under two status codes, and no response of /ask, /healthz or
\* /metrics is sent without an increment.
C6_EveryResponseCountedOnce ==
    /\ \A t \in Workers :
          workers[t].pc = "done" =>
              workers[t].statusIncs = <<FinalStatus(workers[t].result)>>
    /\ NoneInFlight =>
          \A route \in {"/ask", "/healthz", "/metrics"},
             status \in {"200", "400", "500"} :
                Value(HTTP_STATUS_COUNT, <<route, status>>) = SentStatus(route, status)

\* ---- C7 ----------------------------------------------------------------
\* C7: for the same message generate_response returns the same string in
\* every call, in every process and after every restart.
C7_SameAnswerAlways ==
    \A message \in AnswerMessages : Cardinality(answers[message]) <= 1

\* ---- C8 ----------------------------------------------------------------
RejectionSeries == DOMAIN REJECTION_COUNT \cup DOMAIN REJECTION_PATTERN_COUNT

InvalidSeries == <<PROMPT_VERSION, "invalid_request", "none">>

\* C8 as stated: with no request in flight, rejection_pattern_total equals
\* rejections_total for every label tuple, after any sequence of valid,
\* policy-rejected and invalid requests.
C8_SameTrigger ==
    NoneInFlight =>
        \A l \in RejectionSeries :
            Value(REJECTION_PATTERN_COUNT, l) = Value(REJECTION_COUNT, l)

\* C8 as amended: with no request in flight, rejection_pattern_total equals
\* rejections_total for every label tuple whose reason is a classifier
\* category; an invalid request increments rejections_total{invalid_request,
\* none} only, and rejection_pattern_total has no invalid_request series.
C8_SameTriggerForPatterns ==
    NoneInFlight =>
        /\ \A l \in RejectionSeries :
              l[2] \in Categories =>
                  Value(REJECTION_PATTERN_COUNT, l) = Value(REJECTION_COUNT, l)
        /\ \A l \in DOMAIN REJECTION_PATTERN_COUNT : l[2] \in Categories
        /\ \A l \in DOMAIN REJECTION_COUNT : l[2] \in Categories \/ l = InvalidSeries
        /\ Value(REJECTION_COUNT, InvalidSeries) = SentKinds("/ask", {"invalid"})
        /\ Total(REJECTION_PATTERN_COUNT) = SentKinds("/ask", {"rejected"})

\* a policy rejection and an invalid request have both completed
C8_Witness ==
    /\ NoneInFlight
    /\ Total(REJECTION_PATTERN_COUNT) >= 1
    /\ Value(REJECTION_COUNT, InvalidSeries) >= 1

\* ---- C9 ----------------------------------------------------------------
\* the terminal outcome of a completed request
Terminal(w) ==
    IF w.result.how = "raise" \/ w.nExc > 0 THEN "error"
    ELSE IF w.result.status = "200" /\ ~w.result.payload.rejected THEN "accepted"
    ELSE "rejected"

\* C9: every POST /ask makes exactly one request_latency_seconds
\* observation, at its end, labelled with its terminal outcome: accepted
\* iff answered 200 with rejected=false, rejected iff rejected by policy or
\* as invalid, error iff an unhandled fault occurred, also when the fault is
\* raised after the accept/reject decision.
C9_LatencyLabelIsTerminalOutcome ==
    \A t \in Workers :
        workers[t].pc = "done" =>
            workers[t].latencies = <<Terminal(workers[t])>>

\* ---- C10 ---------------------------------------------------------------
Routes == {"/ask", "/healthz"}

\* C10: every label value of every series comes from a closed vocabulary
\* and never from request content: reason is a category or invalid_request,
\* pattern_id a registry identifier or none, route /ask or /healthz,
\* status_code 200, 400 or 500, outcome accepted, rejected or error.
C10_ClosedLabels ==
    /\ \A l \in DOMAIN REQUEST_COUNT \cup DOMAIN ACCEPTED_COUNT :
          l[1] = PROMPT_VERSION /\ l[2] \in Routes
    /\ \A l \in RejectionSeries :
          /\ l[1] = PROMPT_VERSION
          /\ l[2] \in Categories \cup {"invalid_request"}
          /\ l[3] \in PatternIds \cup {"none"}
    /\ \A l \in DOMAIN HTTP_STATUS_COUNT :
          l[1] \in Routes /\ l[2] \in {"200", "400", "500"}
    /\ \A l \in DOMAIN EXCEPTION_COUNT : l[1] \in Routes
    /\ \A l \in DOMAIN REQUEST_LATENCY :
          /\ l[1] = PROMPT_VERSION
          /\ l[2] \in Routes
          /\ l[3] \in {"accepted", "rejected", "error"}
    /\ \A l \in DOMAIN MESSAGE_LENGTH : l = <<PROMPT_VERSION>>

\* a policy rejection and an accepted request have both been recorded
C10_Witness ==
    /\ \E l \in DOMAIN REJECTION_COUNT : l[2] \in Categories
    /\ \E l \in DOMAIN REJECTION_PATTERN_COUNT : l[2] \in Categories
    /\ <<PROMPT_VERSION, "/ask", "accepted">> \in DOMAIN REQUEST_LATENCY
    /\ <<PROMPT_VERSION, "/ask", "rejected">> \in DOMAIN REQUEST_LATENCY

====
